---- MODULE Spec2Model ----
(***************************************************************************)
(* A model of torchsde/core/methods/diagonal/srk.py: the SRKDiagonal       *)
(* solver (strong order 1.5 stochastic Runge-Kutta scheme for diagonal     *)
(* noise SDEs).  One call of SRKDiagonal.step is executed line by line;    *)
(* every call the step makes to a collaborator (self.bm, self.sde.f,       *)
(* self.sde.g, torch.randn_like) is appended to `log`.                     *)
(*                                                                         *)
(* Numbers.  The code computes in floating point; the model computes in    *)
(* exact rational arithmetic, a rational being a pair <<n, d>> with d > 0  *)
(* in lowest terms.  Step sizes are drawn from rationals that are perfect  *)
(* squares, on which sqrt is exact.  A tensor block is one number.         *)
(***************************************************************************)
EXTENDS Integers, Sequences, FiniteSets, TLC

(***************************************************************************)
(* Rational arithmetic (the numeric backend).                              *)
(***************************************************************************)
\* TLC passes operator arguments unevaluated; Eager2 binds both operands as
\* values first, so that an operand is computed once however often it is used
Eager2(Op(_, _), a, b) == CHOOSE v \in {Op(x, y) : x \in {a}, y \in {b}} : TRUE

Abs(m) == IF m < 0 THEN -m ELSE m

RECURSIVE GCD(_, _)
GCD(m, r) ==
    Eager2(LAMBDA x, y : IF y = 0 THEN x ELSE GCD(y, x % y), m, r)

Norm(num, den) ==
    Eager2(LAMBDA x, y :
               LET gg == GCD(Abs(x), Abs(y))
                   sg == IF y < 0 THEN -1 ELSE 1
               IN  IF x = 0 THEN <<0, 1>>
                   ELSE <<sg * (x \div gg), sg * (y \div gg)>>,
           num, den)

R(m) == <<m, 1>>
Q(num, den) == Norm(num, den)
Zero == R(0)

RAdd(qa, qb) ==
    Eager2(LAMBDA x, y :
               LET gg == GCD(x[2], y[2])
                   ll == (x[2] \div gg) * y[2]
               IN  Norm(x[1] * (ll \div x[2]) + y[1] * (ll \div y[2]), ll),
           qa, qb)

RNeg(qa) == Eager2(LAMBDA x, y : <<-x[1], x[2]>>, qa, 0)
RSub(qa, qb) == RAdd(qa, RNeg(qb))

RMul(qa, qb) ==
    Eager2(LAMBDA x, y :
               LET xx == Norm(x[1], y[2])
                   yy == Norm(y[1], x[2])
               IN  Norm(xx[1] * yy[1], xx[2] * yy[2]),
           qa, qb)

\* float division: the divisor is never zero on a path the code reaches
\* (dt > 0 is asserted first); x / 0 is modelled as 0 to keep the operator total.
RDiv(qa, qb) ==
    Eager2(LAMBDA x, y : IF y[1] = 0 THEN Zero ELSE RMul(x, Norm(y[2], y[1])),
           qa, qb)

RPos(qa) == qa[1] > 0

ISqrt(m) == CHOOSE r \in 0..m : r * r <= m /\ (r + 1) * (r + 1) > m
\* math.sqrt / torch.sqrt, exact on the perfect squares the model draws dt from
Sqrt(qa) == <<ISqrt(qa[1]), ISqrt(qa[2])>>

\* elementwise arithmetic on tuples of blocks (the generator expressions over zip)
TSub(ta, tb) == [blk \in DOMAIN ta |-> RSub(ta[blk], tb[blk])]

RECURSIVE RSum(_, _)
RSum(vec, cnt) == IF cnt = 0 THEN Zero ELSE RAdd(RSum(vec, cnt - 1), vec[cnt])

(***************************************************************************)
(* The coefficient table of torchsde/core/methods/tableaus/srid2.py (the   *)
(* Roessler SRID2 tableau: four stages, strictly lower-triangular S x S    *)
(* matrices).  Indices are 1-based here: stage s of the code is entry      *)
(* s + 1.                                                                  *)
(***************************************************************************)
srid2_STAGES == 4

srid2_C0 == <<R(0), R(1), Q(1, 2), R(0)>>
srid2_C1 == <<R(0), Q(1, 4), R(1), Q(1, 4)>>
srid2_A0 == << <<R(0), R(0), R(0), R(0)>>,
         <<R(1), R(0), R(0), R(0)>>,
         <<Q(1, 4), Q(1, 4), R(0), R(0)>>,
         <<R(0), R(0), R(0), R(0)>> >>
srid2_A1 == << <<R(0), R(0), R(0), R(0)>>,
         <<Q(1, 4), R(0), R(0), R(0)>>,
         <<R(1), R(0), R(0), R(0)>>,
         <<R(0), R(0), Q(1, 4), R(0)>> >>
srid2_B0 == << <<R(0), R(0), R(0), R(0)>>,
         <<R(0), R(0), R(0), R(0)>>,
         <<R(1), Q(1, 2), R(0), R(0)>>,
         <<R(0), R(0), R(0), R(0)>> >>
srid2_B1 == << <<R(0), R(0), R(0), R(0)>>,
         <<Q(-1, 2), R(0), R(0), R(0)>>,
         <<R(1), R(0), R(0), R(0)>>,
         <<R(2), R(-1), Q(1, 2), R(0)>> >>
srid2_alpha == <<Q(1, 6), Q(1, 6), Q(2, 3), R(0)>>
srid2_beta1 == <<R(-1), Q(4, 3), Q(2, 3), R(0)>>
srid2_beta2 == <<R(1), Q(-4, 3), Q(1, 3), R(0)>>
srid2_beta3 == <<R(2), Q(-4, 3), Q(-2, 3), R(0)>>
srid2_beta4 == <<R(-2), Q(5, 3), Q(-2, 3), R(1)>>

(***************************************************************************)
(* Bounds of the model and the inputs drawn within them.                   *)
(***************************************************************************)
MaxBlocks == 2   \* a state has 1..MaxBlocks blocks
MaxY == 1        \* block values of y0 are drawn from 1..MaxY (shifted per block)
MaxT0 == 1       \* t0 is drawn from 0..MaxT0

\* step sizes handed to step: two valid ones (perfect squares) and the two
\* kinds of invalid one
DtSet == {R(1), R(4), R(0), R(-1)}
T0Set == {R(n) : n \in 0..MaxT0}
Y0Set(n) == {[i \in 1..n |-> R(b - 2 * (i - 1))] : b \in 1..MaxY}

\* torch.randn_like: a standard-normal sample Z per block.  The model draws the
\* quotient Z / sqrt(3), the only form in which the code uses Z.
ZSet == {R(0), R(1)}

\* the options mapping handed to the constructor: its set of <<key, value>> items
OptionsSet ==
    { {},
      {<<"trapezoidal_approx", TRUE>>},
      {<<"adaptive", FALSE>>},
      {<<"trapezoidal_approx", FALSE>>, <<"adaptive", TRUE>>} }

\* `key in options` and `options[key]` of the mapping
HasKey(opts, key) == \E p \in opts : p[1] = key
Lookup(opts, key) == (CHOOSE p \in opts : p[1] = key)[2]

\* caller-supplied drift and diffusion: the kinds of function the model draws
SdeSet ==
    { [f |-> "zero", g |-> "const"],
      [f |-> "time", g |-> "zero"],
      [f |-> "time", g |-> "lin"] }

\* one block of self.sde.f(t, y) / self.sde.g(t, y)
Fn(kind, t, yi) ==
    CASE kind = "zero"  -> Zero
      [] kind = "const" -> R(2)
      [] kind = "lin"   -> yi
      [] kind = "time"  -> RAdd(t, yi)

sde_f(sde, t, y) == [i \in DOMAIN y |-> Fn(sde.f, t, y[i])]
sde_g(sde, t, y) == [i \in DOMAIN y |-> Fn(sde.g, t, y[i])]

\* the Brownian collaborator: one sampled path per solver, queried at a time.
\* Path w of n blocks has W_i(t) = w.a * i * t + w.b * t * t.
BmSet == { [a |-> 1, b |-> 0, n |-> n] : n \in 1..MaxBlocks }
          \cup { [a |-> -1, b |-> 1, n |-> n] : n \in 1..MaxBlocks }

bm_at(w, t) ==
    [i \in 1..w.n |-> RAdd(RMul(R(w.a * i), t), RMul(R(w.b), RMul(t, t)))]

(***************************************************************************)
(* State.                                                                  *)
(***************************************************************************)
VARIABLES
    STAGES, C0, C1, A0, A1, B0, B1,          \* the module globals of srk.py,
    alpha, beta1, beta2, beta3, beta4,       \* bound at lines 32-39
    options,             \* self.options
    trapezoidal_approx,  \* self.trapezoidal_approx
    sde,                 \* self.sde: the drift and diffusion of the problem
    bm,                  \* self.bm: the Brownian path of the solver
    pc,                  \* position of the running step call, or how the last one ended
    t0, y0, dt,          \* the arguments of the running call
    sqrt_dt, bm_next, I_k, I_kk, I_k0, I_kkk,   \* locals of step, lines 57-64
    t1, y1, H0, H1, s, j, H0s, H1s, f_eval, g_eval,   \* locals of step, lines 66-97
    log,                 \* the collaborator calls made by the latest step call, in order
    outcome,             \* what the latest step call handed to its caller
    ints,                \* the stochastic integrals the latest step call computed
    prev                 \* the latest step call that returned, while the calls
                         \* made since have the same arguments

table == <<STAGES, C0, C1, A0, A1, B0, B1, alpha, beta1, beta2, beta3, beta4>>
solver == <<options, trapezoidal_approx, sde, bm>>
args == <<t0, y0, dt>>
noise == <<sqrt_dt, bm_next, I_k, I_kk, I_k0, I_kkk>>
stage == <<t1, y1, H0, H1, s, j, H0s, H1s, f_eval, g_eval>>
vars == <<STAGES, C0, C1, A0, A1, B0, B1, alpha, beta1, beta2, beta3, beta4,
          options, trapezoidal_approx, sde, bm, pc, t0, y0, dt,
          sqrt_dt, bm_next, I_k, I_kk, I_k0, I_kkk,
          t1, y1, H0, H1, s, j, H0s, H1s, f_eval, g_eval,
          log, outcome, ints, prev>>

NoOutcome == [kind |-> "none", t1 |-> Zero, y1 |-> <<>>, error |-> ""]
NoInts == [set |-> FALSE, I_k |-> <<>>, I_kk |-> <<>>, I_k0 |-> <<>>, I_kkk |-> <<>>]
NoPrev == [set |-> FALSE, t0 |-> Zero, y0 |-> <<>>, dt |-> Zero,
           ints |-> NoInts, t1 |-> Zero, y1 |-> <<>>]

\* a collaborator call: op is "bm", "f", "g" or "randn"; s is the stage being
\* built and j the node evaluated, -1 where there is none; t and y the arguments
Event(op, st, nd, t, y) == [op |-> op, s |-> st, j |-> nd, t |-> t, y |-> y]

Running == pc \notin {"idle", "returned", "raised"}

(***************************************************************************)
(* SRKDiagonal.__init__, lines 44-51.                                      *)
(***************************************************************************)
\* lines 48-51 as `self.options.get('trapezoidal_approx', False)`
InitTrapezoidalApprox_DefaultFalse(opts) ==
    HasKey(opts, "trapezoidal_approx") /\ Lookup(opts, "trapezoidal_approx")

InitTrapezoidalApprox(opts) ==
    IF HasKey(opts, "trapezoidal_approx") /\ ~Lookup(opts, "trapezoidal_approx")
    THEN FALSE
    ELSE TRUE

\* no step call is running: its frame does not exist
FrameGone ==
    /\ t0 = Zero /\ y0 = <<>> /\ dt = Zero
    /\ sqrt_dt = Zero /\ bm_next = <<>>
    /\ I_k = <<>> /\ I_kk = <<>> /\ I_k0 = <<>> /\ I_kkk = <<>>
    /\ t1 = Zero /\ y1 = <<>> /\ H0 = <<>> /\ H1 = <<>>
    /\ s = 0 /\ j = 0 /\ H0s = <<>> /\ H1s = <<>>
    /\ f_eval = <<>> /\ g_eval = <<>>

\* lines 32-39: the module globals are bound to the tableau when srk.py is loaded
LoadTable ==
    /\ STAGES = srid2_STAGES
    /\ C0 = srid2_C0 /\ C1 = srid2_C1
    /\ A0 = srid2_A0 /\ A1 = srid2_A1
    /\ B0 = srid2_B0 /\ B1 = srid2_B1
    /\ alpha = srid2_alpha
    /\ beta1 = srid2_beta1 /\ beta2 = srid2_beta2
    /\ beta3 = srid2_beta3 /\ beta4 = srid2_beta4

Init ==
    /\ LoadTable
    /\ options \in OptionsSet
    /\ trapezoidal_approx = InitTrapezoidalApprox(options)
    /\ sde \in SdeSet
    /\ bm \in BmSet
    /\ pc = "idle"
    /\ FrameGone
    /\ log = <<>>
    /\ outcome = NoOutcome
    /\ ints = NoInts
    /\ prev = NoPrev

(***************************************************************************)
(* The arithmetic of SRKDiagonal.step, one operator per assignment.        *)
(***************************************************************************)
\* line 54 as `assert dt >= 0`
DtNonNegative(d) == d[1] >= 0

\* line 54: assert dt > 0
DtPositive(d) == RPos(d)

\* line 59: I_kk = (delta_bm ** 2 - dt) / 2
Compute_I_kk(Ik, d) ==
    [i \in DOMAIN Ik |-> RDiv(RSub(RMul(Ik[i], Ik[i]), d), R(2))]

\* line 64: I_kkk = (delta_bm ** 3 - 3 * dt * delta_bm) / 6
Compute_I_kkk(Ik, d) ==
    [i \in DOMAIN Ik |->
        RDiv(RSub(RMul(Ik[i], RMul(Ik[i], Ik[i])), RMul(R(3), RMul(d, Ik[i]))), R(6))]

\* line 62: I_k0 = dt / 2 * (delta_bm + randn * sqrt_dt / sqrt(3)); z is randn / sqrt(3)
Compute_I_k0_gaussian(Ik, d, sq, z) ==
    [i \in DOMAIN Ik |-> RMul(RDiv(d, R(2)), RAdd(Ik[i], RMul(z[i], sq)))]

\* utils.compute_trapezoidal_approx(bm, t0, y0, dt, sqrt_dt): the trapezoidal rule
\* for the integral of W_s - W_t0 over [t0, t0 + dt] on TrapIntervals equal
\* intervals, from Brownian queries at the TrapIntervals + 1 nodes
TrapIntervals == 2
TrapNode(t, d, k) == RAdd(t, RMul(Q(k, TrapIntervals), d))
TrapWeight(k) == IF k = 0 \/ k = TrapIntervals THEN Q(1, 2) ELSE R(1)
TrapQueries(t, d) ==
    [k \in 1..(TrapIntervals + 1) |-> Event("bm", -1, -1, TrapNode(t, d, k - 1), <<>>)]
compute_trapezoidal_approx(w, t, y, d, sq) ==
    LET v(k) == TSub(bm_at(w, TrapNode(t, d, k)), bm_at(w, t))
        term(i) == [k \in 1..(TrapIntervals + 1) |-> RMul(TrapWeight(k - 1), v(k - 1)[i])]
    IN  [i \in DOMAIN y |->
            RMul(RDiv(d, R(TrapIntervals)), RSum(term(i), TrapIntervals + 1))]

\* line 61 with the condition inverted
UseTrapezoidal_Inverted == ~trapezoidal_approx

\* line 61: which I_k0 estimate the step takes
UseTrapezoidal == trapezoidal_approx

\* line 70 as `range(s + 1)`
InnerRange_Inclusive(st) == st + 1

\* line 70 as `range(s - 1)`
InnerRange_Short(st) == IF st > 0 THEN st - 1 ELSE 0

\* line 70: for j in range(s)
InnerRange(st) == st

\* lines 74-77: H0s + A0[s][j] * f_eval * dt + B0[s][j] * g_eval * I_k0 / dt
Next_H0s(acc, st, nd, fe, ge, Ik0, d) ==
    [i \in DOMAIN acc |->
        RAdd(RAdd(acc[i], RMul(RMul(A0[st + 1][nd + 1], fe[i]), d)),
             RDiv(RMul(RMul(B0[st + 1][nd + 1], ge[i]), Ik0[i]), d))]

\* lines 78-81: H1s + A1[s][j] * f_eval * dt + B1[s][j] * g_eval * sqrt_dt
Next_H1s(acc, st, nd, fe, ge, d, sq) ==
    [i \in DOMAIN acc |->
        RAdd(RAdd(acc[i], RMul(RMul(A1[st + 1][nd + 1], fe[i]), d)),
             RMul(RMul(B1[st + 1][nd + 1], ge[i]), sq))]

\* lines 90-93 with beta1 and beta2 exchanged
Compute_g_weight_Swapped(st, Ik, Ikk, Ik0, Ikkk, d, sq) ==
    [i \in DOMAIN Ik |->
        RAdd(RAdd(RAdd(RMul(beta2[st + 1], Ik[i]),
                       RDiv(RMul(beta1[st + 1], Ikk[i]), sq)),
                  RDiv(RMul(beta3[st + 1], Ik0[i]), d)),
             RDiv(RMul(beta4[st + 1], Ikkk[i]), d))]

\* lines 90-93: beta1[s]*I_k + beta2[s]*I_kk/sqrt_dt + beta3[s]*I_k0/dt + beta4[s]*I_kkk/dt
Compute_g_weight(st, Ik, Ikk, Ik0, Ikkk, d, sq) ==
    [i \in DOMAIN Ik |->
        RAdd(RAdd(RAdd(RMul(beta1[st + 1], Ik[i]),
                       RDiv(RMul(beta2[st + 1], Ikk[i]), sq)),
                  RDiv(RMul(beta3[st + 1], Ik0[i]), d)),
             RDiv(RMul(beta4[st + 1], Ikkk[i]), d))]

\* lines 94-97 with g_weight added as it is, not multiplied by g_eval
Next_y1_NoDiffusion(acc, st, fe, ge, gw, d) ==
    [i \in DOMAIN acc |->
        RAdd(RAdd(acc[i], RMul(RMul(alpha[st + 1], fe[i]), d)), gw[i])]

\* lines 94-97: y1 + alpha[s] * f_eval * dt + g_weight * g_eval
Next_y1(acc, st, fe, ge, gw, d) ==
    [i \in DOMAIN acc |->
        RAdd(RAdd(acc[i], RMul(RMul(alpha[st + 1], fe[i]), d)), RMul(gw[i], ge[i]))]

\* line 66 with the running output started from zero
Start_y1_Zero(y) == [i \in DOMAIN y |-> Zero]

\* line 66: y1 starts from y0
Start_y1(y) == y

\* line 69: the accumulators of a stage start from y0
Start_Hs(y) == y

(***************************************************************************)
(* SRKDiagonal.step, lines 53-98, statement by statement.                  *)
(***************************************************************************)
\* the locals outlive the call, as if step kept them on the solver
DropFrame_Kept == UNCHANGED <<args, noise, stage>>

\* the call ends (return or raise): its locals go with its frame
DropFrame ==
    /\ t0' = Zero /\ y0' = <<>> /\ dt' = Zero
    /\ sqrt_dt' = Zero /\ bm_next' = <<>>
    /\ I_k' = <<>> /\ I_kk' = <<>> /\ I_k0' = <<>> /\ I_kkk' = <<>>
    /\ t1' = Zero /\ y1' = <<>> /\ H0' = <<>> /\ H1' = <<>>
    /\ s' = 0 /\ j' = 0 /\ H0s' = <<>> /\ H1s' = <<>>
    /\ f_eval' = <<>> /\ g_eval' = <<>>

\* step catches the exception and raises one of its own
Raise_Wrapped(err) ==
    /\ pc' = "raised"
    /\ outcome' = [kind |-> "raised", t1 |-> Zero, y1 |-> <<>>, error |-> "RuntimeError"]
    /\ DropFrame
    /\ UNCHANGED <<table, solver, ints, prev>>

\* an exception leaves step: nothing is caught (no try in lines 53-98)
Raise(err) ==
    /\ pc' = "raised"
    /\ outcome' = [kind |-> "raised", t1 |-> Zero, y1 |-> <<>>, error |-> err]
    /\ DropFrame
    /\ UNCHANGED <<table, solver, ints, prev>>

\* the caller calls step(t0, y0, dt) on the solver
StepCall ==
    /\ pc = "idle"
    /\ \E t \in T0Set, y \in Y0Set(bm.n), d \in DtSet :
          /\ t0' = t /\ y0' = y /\ dt' = d
          /\ prev' = IF prev.set /\ prev.t0 = t /\ prev.y0 = y /\ prev.dt = d
                     THEN prev ELSE NoPrev
    /\ pc' = "assert"
    /\ UNCHANGED <<table, solver, noise, stage, log, outcome, ints>>

\* the caller has taken what the call handed it (the pair, or the exception)
CallerResumes ==
    /\ pc \in {"returned", "raised"}
    /\ pc' = "idle"
    /\ log' = <<>>
    /\ outcome' = NoOutcome
    /\ ints' = NoInts
    /\ UNCHANGED <<table, solver, args, noise, stage, prev>>

\* line 54: assert dt > 0; line 57: sqrt_dt
AssertDt ==
    /\ pc = "assert"
    /\ IF DtPositive(dt)
       THEN /\ sqrt_dt' = Sqrt(dt)
            /\ pc' = "bm_next"
            /\ UNCHANGED <<table, solver, args, bm_next, I_k, I_kk, I_k0, I_kkk, stage,
                           outcome, ints, prev>>
       ELSE Raise("AssertionError")
    /\ UNCHANGED log

\* line 58: self.bm(t0 + dt)
QueryBmNext ==
    /\ pc = "bm_next"
    /\ log' = Append(log, Event("bm", -1, -1, RAdd(t0, dt), <<>>))
    /\ bm_next' = bm_at(bm, RAdd(t0, dt))
    /\ pc' = "bm_cur"
    /\ UNCHANGED <<table, solver, args, sqrt_dt, I_k, I_kk, I_k0, I_kkk, stage,
                   outcome, ints, prev>>

\* line 58: self.bm(t0) and I_k = bm_next - bm_cur; line 59: I_kk
QueryBmCur ==
    /\ pc = "bm_cur"
    /\ log' = Append(log, Event("bm", -1, -1, t0, <<>>))
    /\ LET bm_cur == bm_at(bm, t0)
       IN  /\ I_k' = TSub(bm_next, bm_cur)
           /\ I_kk' = Compute_I_kk(TSub(bm_next, bm_cur), dt)
    /\ pc' = "I_k0"
    /\ UNCHANGED <<table, solver, args, sqrt_dt, bm_next, I_k0, I_kkk, stage,
                   outcome, ints, prev>>

\* lines 64-67 once I_k0 is known: I_kkk; t1, y1 = t0 + dt, y0; H0, H1 = [], []
AfterIk0(Ik0) ==
    /\ I_k0' = Ik0
    /\ I_kkk' = Compute_I_kkk(I_k, dt)
    /\ ints' = [set |-> TRUE, I_k |-> I_k, I_kk |-> I_kk, I_k0 |-> Ik0,
                I_kkk |-> Compute_I_kkk(I_k, dt)]
    /\ t1' = RAdd(t0, dt)
    /\ y1' = Start_y1(y0)
    /\ H0' = <<>> /\ H1' = <<>>
    /\ s' = 0
    /\ pc' = "stage"
    /\ UNCHANGED <<table, solver, args, sqrt_dt, bm_next, I_k, I_kk, j, H0s, H1s,
                   f_eval, g_eval, outcome, prev>>

\* line 61: I_k0 by utils.compute_trapezoidal_approx, which queries self.bm
ComputeIk0Trapezoidal ==
    /\ pc = "I_k0"
    /\ UseTrapezoidal
    /\ log' = log \o TrapQueries(t0, dt)
    /\ AfterIk0(compute_trapezoidal_approx(bm, t0, y0, dt, sqrt_dt))

\* line 62: I_k0 from one torch.randn_like draw per block
ComputeIk0Gaussian ==
    /\ pc = "I_k0"
    /\ ~UseTrapezoidal
    /\ \E z \in [DOMAIN I_k -> ZSet] :
          /\ log' = log \o [i \in DOMAIN I_k |-> Event("randn", -1, -1, z[i], <<>>)]
          /\ AfterIk0(Compute_I_k0_gaussian(I_k, dt, sqrt_dt, z))

\* lines 68-69: the next stage begins, its accumulators at y0
StageBegin ==
    /\ pc = "stage"
    /\ s < STAGES
    /\ H0s' = Start_Hs(y0)
    /\ H1s' = Start_Hs(y0)
    /\ j' = 0
    /\ pc' = "inner"
    /\ UNCHANGED <<table, solver, args, noise, t1, y1, H0, H1, s, f_eval, g_eval,
                   log, outcome, ints, prev>>

\* lines 70-71: f_eval = self.sde.f(t0 + C0[j] * dt, H0[j]); reading a list
\* past its end raises IndexError
InnerF ==
    /\ pc = "inner"
    /\ j < InnerRange(s)
    /\ IF j + 1 \in DOMAIN H0
       THEN LET t == RAdd(t0, RMul(C0[j + 1], dt)) IN
            /\ f_eval' = sde_f(sde, t, H0[j + 1])
            /\ log' = Append(log, Event("f", s, j, t, H0[j + 1]))
            /\ pc' = "inner_g"
            /\ UNCHANGED <<table, solver, args, noise, t1, y1, H0, H1, s, j, H0s, H1s,
                           g_eval, outcome, ints, prev>>
       ELSE Raise("IndexError") /\ UNCHANGED log

\* lines 72-81: g_eval = self.sde.g(t0 + C1[j] * dt, H1[j]); H0s and H1s accumulate
InnerG ==
    /\ pc = "inner_g"
    /\ LET t == RAdd(t0, RMul(C1[j + 1], dt))
           ge == sde_g(sde, t, H1[j + 1])
       IN
       /\ g_eval' = ge
       /\ log' = Append(log, Event("g", s, j, t, H1[j + 1]))
       /\ H0s' = Next_H0s(H0s, s, j, f_eval, ge, I_k0, dt)
       /\ H1s' = Next_H1s(H1s, s, j, f_eval, ge, dt, sqrt_dt)
    /\ j' = j + 1
    /\ pc' = "inner"
    /\ UNCHANGED <<table, solver, args, noise, t1, y1, H0, H1, s, f_eval,
                   outcome, ints, prev>>

\* lines 82-83: H0.append(H0s); H1.append(H1s)
StageStore ==
    /\ pc = "inner"
    /\ j >= InnerRange(s)
    /\ H0' = Append(H0, H0s)
    /\ H1' = Append(H1, H1s)
    /\ pc' = "outer_f"
    /\ UNCHANGED <<table, solver, args, noise, t1, y1, s, j, H0s, H1s, f_eval, g_eval,
                   log, outcome, ints, prev>>

\* line 86: f_eval = self.sde.f(t0 + C0[s] * dt, H0s)
OuterF ==
    /\ pc = "outer_f"
    /\ LET t == RAdd(t0, RMul(C0[s + 1], dt)) IN
       /\ f_eval' = sde_f(sde, t, H0s)
       /\ log' = Append(log, Event("f", s, s, t, H0s))
    /\ pc' = "outer_g"
    /\ UNCHANGED <<table, solver, args, noise, t1, y1, H0, H1, s, j, H0s, H1s, g_eval,
                   outcome, ints, prev>>

\* lines 87-97: g_eval = self.sde.g(t0 + C1[s] * dt, H1s); g_weight; y1 accumulates
OuterG ==
    /\ pc = "outer_g"
    /\ LET t == RAdd(t0, RMul(C1[s + 1], dt))
           ge == sde_g(sde, t, H1s)
           g_weight == Compute_g_weight(s, I_k, I_kk, I_k0, I_kkk, dt, sqrt_dt)
       IN
       /\ g_eval' = ge
       /\ log' = Append(log, Event("g", s, s, t, H1s))
       /\ y1' = Next_y1(y1, s, f_eval, ge, g_weight, dt)
    /\ s' = s + 1
    /\ pc' = "stage"
    /\ UNCHANGED <<table, solver, args, noise, t1, H0, H1, j, H0s, H1s, f_eval,
                   outcome, ints, prev>>

\* line 98: return t1, y1
Return ==
    /\ pc = "stage"
    /\ s >= STAGES
    /\ outcome' = [kind |-> "returned", t1 |-> t1, y1 |-> y1, error |-> ""]
    /\ prev' = [set |-> TRUE, t0 |-> t0, y0 |-> y0, dt |-> dt,
                ints |-> ints, t1 |-> t1, y1 |-> y1]
    /\ pc' = "returned"
    /\ DropFrame
    /\ UNCHANGED <<table, solver, log, ints>>

(***************************************************************************)
(* A collaborator raises.  The exception travels through step, which has   *)
(* no handler, to the caller.                                              *)
(***************************************************************************)
\* self.bm raises at line 58, or inside compute_trapezoidal_approx at line 61
BmFails ==
    /\ \/ pc = "bm_next" /\ log' = Append(log, Event("bm", -1, -1, RAdd(t0, dt), <<>>))
       \/ pc = "bm_cur" /\ log' = Append(log, Event("bm", -1, -1, t0, <<>>))
       \/ pc = "I_k0" /\ UseTrapezoidal /\ log' = Append(log, TrapQueries(t0, dt)[1])
    /\ Raise("BrownianError")

\* self.sde.f raises at line 71 or line 86
DriftFails ==
    /\ \/ /\ pc = "inner" /\ j < InnerRange(s) /\ j + 1 \in DOMAIN H0
          /\ log' = Append(log, Event("f", s, j, RAdd(t0, RMul(C0[j + 1], dt)), H0[j + 1]))
       \/ /\ pc = "outer_f"
          /\ log' = Append(log, Event("f", s, s, RAdd(t0, RMul(C0[s + 1], dt)), H0s))
    /\ Raise("DriftError")

\* self.sde.g raises at line 72 or line 87
DiffusionFails ==
    /\ \/ /\ pc = "inner_g"
          /\ log' = Append(log, Event("g", s, j, RAdd(t0, RMul(C1[j + 1], dt)), H1[j + 1]))
       \/ /\ pc = "outer_g"
          /\ log' = Append(log, Event("g", s, s, RAdd(t0, RMul(C1[s + 1], dt)), H1s))
    /\ Raise("DiffusionError")

Next ==
    \/ StepCall
    \/ CallerResumes
    \/ AssertDt
    \/ QueryBmNext
    \/ QueryBmCur
    \/ ComputeIk0Trapezoidal
    \/ ComputeIk0Gaussian
    \/ StageBegin
    \/ InnerF
    \/ InnerG
    \/ StageStore
    \/ OuterF
    \/ OuterG
    \/ Return
    \/ BmFails
    \/ DriftFails
    \/ DiffusionFails

Spec == Init /\ [][Next]_vars

\* the step with collaborators that do not fail: the interpreter runs the
\* statements of lines 53-98 one after the other
NextNoFailure ==
    \/ StepCall \/ CallerResumes
    \/ AssertDt \/ QueryBmNext \/ QueryBmCur
    \/ ComputeIk0Trapezoidal \/ ComputeIk0Gaussian
    \/ StageBegin \/ InnerF \/ InnerG \/ StageStore \/ OuterF \/ OuterG
    \/ Return

SpecNoFailure == Init /\ [][NextNoFailure]_vars /\ WF_vars(NextNoFailure)

(***************************************************************************)
(* Properties.                                                             *)
(***************************************************************************)
\* the step is about to execute `return t1, y1` (line 98)
AtReturn == pc = "stage" /\ s >= STAGES

Returned(t, y) == [kind |-> "returned", t1 |-> t, y1 |-> y, error |-> ""]

CountOp(op) == Cardinality({k \in DOMAIN log : log[k].op = op})

\* C1: a call of step with dt = 0 or dt < 0 ends at line 54 with the
\* precondition failure: no collaborator (bm, f, g, randn) has been called
\* before the assertion or is called after it, no stochastic integral is
\* computed, and the caller gets the AssertionError and no (t1, y1).
C1_NonPositiveDtFailsAtOnce ==
    [][(pc = "assert" /\ dt[1] <= 0) =>
          /\ log = <<>> /\ log' = <<>>
          /\ pc' = "raised"
          /\ outcome'.kind = "raised" /\ outcome'.error = "AssertionError"
          /\ outcome'.y1 = <<>>
          /\ ints' = NoInts]_vars

C1_Witness ==
    /\ pc = "raised" /\ outcome.error = "AssertionError"
    /\ log = <<>> /\ ~ints.set

\* the noise weight of stage st for block i, as C2 states it
ClaimGWeight(st, i) ==
    RAdd(RAdd(RAdd(RMul(beta1[st + 1], I_k[i]),
                   RDiv(RMul(beta2[st + 1], I_kk[i]), Sqrt(dt))),
              RDiv(RMul(beta3[st + 1], I_k0[i]), dt)),
         RDiv(RMul(beta4[st + 1], I_kkk[i]), dt))

\* what stage st adds to block i of the output, as C2 states it
ClaimStageTerm(st, i) ==
    RAdd(RMul(RMul(alpha[st + 1],
                   sde_f(sde, RAdd(t0, RMul(C0[st + 1], dt)), H0[st + 1])[i]), dt),
         RMul(ClaimGWeight(st, i),
              sde_g(sde, RAdd(t0, RMul(C1[st + 1], dt)), H1[st + 1])[i]))

ClaimY1(n) ==
    [i \in DOMAIN y0 |->
        RAdd(y0[i], RSum([k \in 1..n |-> ClaimStageTerm(k - 1, i)], n))]

\* C2: a step with dt > 0 that reaches its return hands back (t1, y1) with
\* t1 = t0 + dt and, per block, y1 = y0 + the sum over the STAGES stages of
\* alpha[s] * f(t0 + C0[s]*dt, H0[s]) * dt + g_weight_s * g(t0 + C1[s]*dt, H1[s]),
\* g_weight_s = beta1[s]*I_k + beta2[s]*I_kk/sqrt(dt) + beta3[s]*I_k0/dt
\* + beta4[s]*I_kkk/dt: the output starts at y0 and each stage is added once.
C2_StepFormula ==
    [][AtReturn =>
          /\ RPos(dt) /\ Len(H0) = STAGES /\ Len(H1) = STAGES
          /\ outcome' = Returned(RAdd(t0, dt), ClaimY1(STAGES))]_vars

C2_Witness ==
    /\ pc = "returned" /\ outcome.kind = "returned"
    /\ sde.f = "time" /\ sde.g = "lin"
    /\ \E i \in DOMAIN outcome.y1 : outcome.y1[i] # Zero
    /\ \E i \in DOMAIN ints.I_kk : ints.I_kk[i] # Zero

\* the drift at node n (1-based) of the running call, for block i
DriftAt(n, i) == sde_f(sde, RAdd(t0, RMul(C0[n], dt)), H0[n])[i]

\* stage k (1-based) as the Runge-Kutta update of the drift alone builds it:
\* y0 plus the A0 drift terms of the stages before it
DetStage(k) ==
    [i \in DOMAIN y0 |->
        RAdd(y0[i],
             RSum([n \in 1..(k - 1) |-> RMul(RMul(A0[k][n], DriftAt(n, i)), dt)],
                  k - 1))]

\* the output of the Runge-Kutta update of the drift alone
DetRK ==
    [i \in DOMAIN y0 |->
        RAdd(y0[i],
             RSum([n \in 1..STAGES |-> RMul(RMul(alpha[n], DriftAt(n, i)), dt)],
                  STAGES))]

\* C3: with a diffusion that is 0 at every evaluation, the step returns
\* t1 = t0 + dt and y1 = y0 + sum_s alpha[s]*f(t0 + C0[s]*dt, H0[s])*dt, where
\* every H0[s] is y0 plus the A0 drift terms of the earlier stages alone.  These
\* equations fix H0 and y1 from f, t0, y0 and dt: no Brownian sample, I_k0 mode
\* or random draw enters the result.
C3_ZeroDiffusionIsDeterministic ==
    [][(AtReturn /\ sde.g = "zero") =>
          /\ \A k \in 1..STAGES : H0[k] = DetStage(k)
          /\ outcome' = Returned(RAdd(t0, dt), DetRK)]_vars

\* two steps with the same arguments and different I_k0 that end with the same y1
C3_Witness ==
    /\ AtReturn /\ sde.g = "zero" /\ sde.f = "time"
    /\ prev.set /\ prev.ints.I_k0 # I_k0
    /\ \E i \in DOMAIN I_k : I_k[i] # Zero
    /\ prev.y1 = y1 /\ y1 # y0

NonZero(v) == \E i \in DOMAIN v : v[i] # Zero

\* C4: the step draws from the global random source only in Gaussian-correction
\* mode, and there once per block; a step called again with the same t0, y0
\* and dt on the same Brownian path computes the same I_k, I_kk and I_kkk, and
\* in trapezoidal mode also the same I_k0 and returns the same (t1, y1).
C4_TrapezoidalIsReproducible ==
    /\ trapezoidal_approx => CountOp("randn") = 0
    /\ (~trapezoidal_approx /\ ints.set) => CountOp("randn") = Len(ints.I_k)
    /\ (prev.set /\ ints.set) =>
          /\ Running => (prev.t0 = t0 /\ prev.y0 = y0 /\ prev.dt = dt)
          /\ ints.I_k = prev.ints.I_k
          /\ ints.I_kk = prev.ints.I_kk
          /\ ints.I_kkk = prev.ints.I_kkk
          /\ trapezoidal_approx => ints.I_k0 = prev.ints.I_k0
    /\ (AtReturn /\ prev.set /\ trapezoidal_approx) =>
          (t1 = prev.t1 /\ y1 = prev.y1)

\* in Gaussian-correction mode a repeated step came to another I_k0, the other
\* integrals agreeing
C4_Witness ==
    /\ ~trapezoidal_approx /\ Running /\ prev.set /\ ints.set
    /\ prev.t0 = t0 /\ prev.y0 = y0 /\ prev.dt = dt
    /\ ints.I_k0 # prev.ints.I_k0
    /\ ints.I_k = prev.ints.I_k /\ NonZero(ints.I_k)
    /\ CountOp("randn") = Len(y0)

\* C5: with f = 0 and g = c at every evaluation the step returns, per block,
\* y1 = y0 + c * ((sum beta1)*I_k + (sum beta2)*I_kk/sqrt(dt)
\* + (sum beta3)*I_k0/dt + (sum beta4)*I_kkk/dt): no stage value and no entry of
\* A0, A1, B0, B1 enters the result.
C5_ZeroDriftConstantDiffusion ==
    [][(AtReturn /\ sde.f = "zero" /\ sde.g = "const") =>
          LET c == Fn("const", Zero, Zero)
              w(i) == RAdd(RAdd(RAdd(RMul(RSum(beta1, STAGES), I_k[i]),
                                     RDiv(RMul(RSum(beta2, STAGES), I_kk[i]), Sqrt(dt))),
                                RDiv(RMul(RSum(beta3, STAGES), I_k0[i]), dt)),
                           RDiv(RMul(RSum(beta4, STAGES), I_kkk[i]), dt))
          IN  outcome' = Returned(RAdd(t0, dt),
                                  [i \in DOMAIN y0 |-> RAdd(y0[i], RMul(c, w(i)))])]_vars

C5_Witness ==
    /\ pc = "returned" /\ outcome.kind = "returned"
    /\ sde.f = "zero" /\ sde.g = "const"
    /\ NonZero(ints.I_k) /\ NonZero(ints.I_kk) /\ NonZero(ints.I_k0)
    /\ NonZero(ints.I_kkk)

\* C6: no statement of step, and no way of leaving it, changes the coefficient
\* table or a field of the solver; the arguments are the same throughout the
\* call; when the call has ended nothing of it is left (no argument, no
\* integral, no stage list H0 or H1); and in trapezoidal mode a step that
\* follows other calls with the same arguments returns what the earlier one did.
C6_StepIsStateless ==
    [][/\ table' = table
       /\ solver' = solver
       /\ (Running /\ Running') => args' = args
       /\ ~Running' => FrameGone'
       /\ (AtReturn /\ prev.set /\ trapezoidal_approx) =>
             outcome' = Returned(prev.t1, prev.y1)]_vars

\* a step about to return after an earlier call with the same arguments returned
C6_Witness ==
    /\ AtReturn /\ prev.set /\ trapezoidal_approx
    /\ sde.f = "time" /\ sde.g = "lin"
    /\ H0 # <<>> /\ y1 = prev.y1 /\ y1 # y0

TrapKeyIs(v) == <<"trapezoidal_approx", v>> \in options

\* C7: the I_k0 mode follows from the key trapezoidal_approx alone: trapezoidal
\* when the key is missing or true, Gaussian-correction when it is present and
\* false, whatever other keys the options hold; and every step uses that mode:
\* it draws random samples exactly when the key is false, and has the extra
\* Brownian queries of the trapezoidal rule exactly when it is not.
C7_ModeFromOptions ==
    /\ ~HasKey(options, "trapezoidal_approx") => trapezoidal_approx
    /\ TrapKeyIs(TRUE) => trapezoidal_approx
    /\ TrapKeyIs(FALSE) => ~trapezoidal_approx
    /\ ints.set => (CountOp("randn") > 0 <=> TrapKeyIs(FALSE))
    /\ ints.set => (CountOp("bm") > 2 <=> ~TrapKeyIs(FALSE))

C7_Witness ==
    /\ pc = "returned" /\ ints.set
    /\ TrapKeyIs(FALSE) /\ <<"adaptive", TRUE>> \in options
    /\ CountOp("randn") > 0 /\ CountOp("bm") = 2

\* the exception a failing collaborator call raises
ErrorOf(op) ==
    CASE op = "bm" -> "BrownianError"
      [] op = "f" -> "DriftError"
      [] op = "g" -> "DiffusionError"
      [] OTHER -> "none"

\* C8: when a drift, diffusion or Brownian call fails, the step ends there with
\* that call's own exception: the failing call is the last the step makes, the
\* caller gets the exception and no (t1, y1), and nothing of the call is left:
\* the solver, and a result an earlier call with the same arguments returned,
\* are as before, so a later call meets the state it would have met anyway.
C8_FailurePropagates ==
    [][/\ (pc' = "raised" /\ log' # log) =>
             /\ Len(log') = Len(log) + 1
             /\ outcome'.kind = "raised"
             /\ outcome'.error = ErrorOf(log'[Len(log')].op)
             /\ outcome'.error # "none"
             /\ outcome'.y1 = <<>>
             /\ solver' = solver /\ prev' = prev /\ FrameGone'
       /\ pc = "raised" =>
             /\ pc' = "idle" /\ log' = <<>> /\ outcome' = NoOutcome
             /\ solver' = solver /\ prev' = prev /\ FrameGone'
       /\ (AtReturn /\ prev.set /\ trapezoidal_approx) =>
             outcome' = Returned(prev.t1, prev.y1)]_vars

\* a diffusion call failed late in a step that repeats one that returned
C8_Witness ==
    /\ pc = "raised" /\ outcome.error = "DiffusionError"
    /\ Len(log) > 10 /\ log[Len(log)].op = "g" /\ log[Len(log)].j < log[Len(log)].s
    /\ prev.set /\ outcome.y1 = <<>>

StageH0(k) ==
    [i \in DOMAIN y0 |->
        RAdd(y0[i],
             RSum([n \in 1..(k - 1) |->
                      RAdd(RMul(RMul(A0[k][n], sde_f(sde, RAdd(t0, RMul(C0[n], dt)), H0[n])[i]), dt),
                           RDiv(RMul(RMul(B0[k][n], sde_g(sde, RAdd(t0, RMul(C1[n], dt)), H1[n])[i]),
                                     I_k0[i]), dt))],
                  k - 1))]

StageH1(k) ==
    [i \in DOMAIN y0 |->
        RAdd(y0[i],
             RSum([n \in 1..(k - 1) |->
                      RAdd(RMul(RMul(A1[k][n], sde_f(sde, RAdd(t0, RMul(C0[n], dt)), H0[n])[i]), dt),
                           RMul(RMul(B1[k][n], sde_g(sde, RAdd(t0, RMul(C1[n], dt)), H1[n])[i]),
                                Sqrt(dt)))],
                  k - 1))]

InStageLoop == pc \in {"stage", "inner", "inner_g", "outer_f", "outer_g"}

\* C9: throughout a step, H0 and H1 hold exactly the stages finished so far;
\* stage s, when stored, is y0 plus terms of the nodes j < s alone (so stage 0
\* is y0); a
\* stage value is read, and an entry A0[s][j], A1[s][j], B0[s][j], B1[s][j]
\* used, only for j < s with stage j stored (no read ever misses the list); and
\* a stored stage value is never changed while the call runs.
C9_TriangularStages ==
    [][/\ Len(H0) = Len(H1)
       /\ InStageLoop =>
             Len(H0) = IF pc \in {"outer_f", "outer_g"} THEN s + 1 ELSE s
       /\ pc \in {"inner", "inner_g"} => j <= s
       /\ pc = "inner_g" => (j < s /\ j + 1 <= Len(H0))
       /\ outcome.error # "IndexError" /\ outcome'.error # "IndexError"
       /\ pc = "outer_f" =>
             (H0[s + 1] = StageH0(s + 1) /\ H1[s + 1] = StageH1(s + 1))
       /\ Len(H0) > 0 => (H0[1] = y0 /\ H1[1] = y0)
       /\ (Running /\ Running') =>
             \A k \in DOMAIN H0 :
                 k \in DOMAIN H0' /\ H0'[k] = H0[k] /\ H1'[k] = H1[k]]_vars

\* the last stage reads the stored stage 2, whose value took a diffusion term
C9_Witness ==
    /\ pc = "inner_g" /\ s = 3 /\ j = 2 /\ Len(H0) = 3
    /\ sde.g = "lin" /\ H0[3] # y0 /\ H1[3] # H0[3] /\ H0[1] = y0

\* the node pair of the p-th evaluation pair of a step: stage s has the pairs
\* s(s+1)/2 + 1 .. (s+1)(s+2)/2, for the nodes 0..s
PairStage(p) ==
    CHOOSE st \in 0..(STAGES - 1) :
        (st * (st + 1)) \div 2 < p /\ p <= ((st + 1) * (st + 2)) \div 2
PairNode(p) == p - 1 - (PairStage(p) * (PairStage(p) + 1)) \div 2

NoiseCalls == CountOp("bm") + CountOp("randn")

FollowsSchedule ==
    LET nc == NoiseCalls
        total == (STAGES * (STAGES + 1)) \div 2
    IN  /\ Len(log) <= nc + 2 * total
        /\ Len(log) >= 1 => (log[1].op = "bm" /\ (Running => log[1].t = RAdd(t0, dt)))
        /\ Len(log) >= 2 => (log[2].op = "bm" /\ (Running => log[2].t = t0))
        /\ \A k \in DOMAIN log :
              IF k <= nc
              THEN log[k].op \in {"bm", "randn"}
              ELSE LET q == k - nc
                       p == (q + 1) \div 2
                       e == log[k]
                   IN  /\ ints.set
                       /\ e.op = IF q % 2 = 1 THEN "f" ELSE "g"
                       /\ e.s = PairStage(p)
                       /\ e.j = PairNode(p)
                       /\ Running =>
                             IF e.op = "f"
                             THEN /\ e.t = RAdd(t0, RMul(C0[e.j + 1], dt))
                                  /\ e.y = H0[e.j + 1]
                             ELSE /\ e.t = RAdd(t0, RMul(C1[e.j + 1], dt))
                                  /\ e.y = H1[e.j + 1]
        /\ (AtReturn \/ pc = "returned") =>
              /\ CountOp("f") = total
              /\ CountOp("g") = total
              /\ Len(log) = nc + 2 * total

\* C10: a step with dt > 0 whose collaborators do not fail returns, and the
\* calls it makes are a fixed sequence: first the Brownian queries (bm(t0 + dt),
\* then bm(t0)) and the random draws, all integrals being computed before the
\* first f or g; then for s = 0..STAGES-1 the nodes j = 0..s-1 and then node s,
\* f before g each time, every evaluation of node j with the arguments
\* (t0 + C0[j]*dt, H0[j]) and (t0 + C1[j]*dt, H1[j]); f and g are each called
\* STAGES*(STAGES+1)/2 times.
C10_FixedEvaluationSequence ==
    /\ []FollowsSchedule
    /\ (pc = "assert" /\ RPos(dt)) ~> (pc = "returned")

C10_Witness ==
    /\ pc = "returned" /\ outcome.kind = "returned"
    /\ CountOp("f") = 10 /\ CountOp("g") = 10
    /\ log[Len(log)] = Event("g", 3, 3, log[Len(log)].t, log[Len(log)].y)
    /\ log[Len(log) - 3].s = 3 /\ log[Len(log) - 3].j = 2 /\ log[Len(log) - 3].op = "f"

====
